---------------------------- MODULE Spec2Model ----------------------------
(***************************************************************************)
(* sevtool front-end (src/src/main.cpp): the getopt_long loop of main, the *)
(* switch that dispatches each recognised option, the repetition runner    *)
(* perform_repetitions_and_analysis and the statistics it prints.          *)
(*                                                                         *)
(* A command-line token is a record [name, w, att]:                        *)
(*   name # ""            an option token "--name" (att: "--name=w")       *)
(*   name = ""            a plain word whose characters are w             *)
(* argv[0] (the program name) is implicit, so argv[i] of the code is       *)
(* argv[i] of the model and argc = Len(argv) + 1.                          *)
(*                                                                         *)
(* Measurements are doubles in the code; the model draws them from small   *)
(* integers and keeps every printed statistic exact by scaling: the        *)
(* quartiles and the median are kept doubled (x2), the mean as the sum,    *)
(* the variance multiplied by n^3.                                         *)
(***************************************************************************)
EXTENDS Integers, Sequences, FiniteSets, TLC

\* ------------------------------------------------------------- bounds
\* Longest command line of the exhaustive family (every token sequence).
MaxArgs == 3
\* Largest --repetitions value of the runner family.
MaxReps == 4
\* Measurement values are drawn from 1..MaxVal.
MaxVal == 2

\* --------------------------------------------------- program constants
\* int cmd_ret = 0xFFFF: the "not supported" status.
NotSupported == 65535
\* static int repetitions = 1, and the reset value of case 'r'.
DefaultRepetitions == 1

\* --------------------------------------------------------------- tokens
Opt(n) == [name |-> n, w |-> <<>>, att |-> FALSE]
OptEq(n, cs) == [name |-> n, w |-> cs, att |-> TRUE]
Word(cs) == [name |-> "", w |-> cs, att |-> FALSE]

\* long_options[] and the short options of "hio:r:": has_arg, the value
\* getopt_long returns, and for the two flag-setting entries the value
\* stored into verbose_flag.
long_options ==
    [n \in {"verbose", "brief", "factory_reset", "platform_status", "pek_gen",
            "pek_csr", "pdh_gen", "pdh_cert_export", "pek_cert_import", "get_id",
            "set_self_owned", "set_externally_owned", "generate_cek_ask",
            "export_cert_chain", "export_cert_chain_vcek", "repetitions",
            "sign_pek_csr", "get_ask_ark", "calc_measurement",
            "validate_cert_chain", "generate_launch_blob", "package_secret",
            "validate_attestation", "validate_guest_report",
            "validate_cert_chain_vcek", "test_all", "help", "sys_info",
            "ofolder", "-h", "-i", "-o", "-r"} |->
      CASE n = "verbose" -> [has_arg |-> FALSE, val |-> "0", flag |-> 1]
        [] n = "brief" -> [has_arg |-> FALSE, val |-> "0", flag |-> 0]
        [] n = "factory_reset" -> [has_arg |-> FALSE, val |-> "a", flag |-> -1]
        [] n = "platform_status" -> [has_arg |-> FALSE, val |-> "b", flag |-> -1]
        [] n = "pek_gen" -> [has_arg |-> FALSE, val |-> "c", flag |-> -1]
        [] n = "pek_csr" -> [has_arg |-> FALSE, val |-> "d", flag |-> -1]
        [] n = "pdh_gen" -> [has_arg |-> FALSE, val |-> "e", flag |-> -1]
        [] n = "pdh_cert_export" -> [has_arg |-> FALSE, val |-> "f", flag |-> -1]
        [] n = "pek_cert_import" -> [has_arg |-> TRUE, val |-> "g", flag |-> -1]
        [] n = "get_id" -> [has_arg |-> FALSE, val |-> "j", flag |-> -1]
        [] n = "set_self_owned" -> [has_arg |-> FALSE, val |-> "k", flag |-> -1]
        [] n = "set_externally_owned" -> [has_arg |-> TRUE, val |-> "l", flag |-> -1]
        [] n = "generate_cek_ask" -> [has_arg |-> FALSE, val |-> "m", flag |-> -1]
        [] n = "export_cert_chain" -> [has_arg |-> FALSE, val |-> "p", flag |-> -1]
        [] n = "export_cert_chain_vcek" -> [has_arg |-> FALSE, val |-> "q", flag |-> -1]
        [] n = "repetitions" -> [has_arg |-> TRUE, val |-> "r", flag |-> -1]
        [] n = "sign_pek_csr" -> [has_arg |-> TRUE, val |-> "s", flag |-> -1]
        [] n = "get_ask_ark" -> [has_arg |-> FALSE, val |-> "n", flag |-> -1]
        [] n = "calc_measurement" -> [has_arg |-> TRUE, val |-> "t", flag |-> -1]
        [] n = "validate_cert_chain" -> [has_arg |-> FALSE, val |-> "u", flag |-> -1]
        [] n = "generate_launch_blob" -> [has_arg |-> TRUE, val |-> "v", flag |-> -1]
        [] n = "package_secret" -> [has_arg |-> FALSE, val |-> "w", flag |-> -1]
        [] n = "validate_attestation" -> [has_arg |-> FALSE, val |-> "x", flag |-> -1]
        [] n = "validate_guest_report" -> [has_arg |-> FALSE, val |-> "y", flag |-> -1]
        [] n = "validate_cert_chain_vcek" -> [has_arg |-> FALSE, val |-> "z", flag |-> -1]
        [] n = "test_all" -> [has_arg |-> FALSE, val |-> "T", flag |-> -1]
        [] n = "help" -> [has_arg |-> FALSE, val |-> "H", flag |-> -1]
        [] n = "sys_info" -> [has_arg |-> FALSE, val |-> "I", flag |-> -1]
        [] n = "ofolder" -> [has_arg |-> TRUE, val |-> "O", flag |-> -1]
        [] n = "-h" -> [has_arg |-> FALSE, val |-> "h", flag |-> -1]
        [] n = "-i" -> [has_arg |-> FALSE, val |-> "i", flag |-> -1]
        [] n = "-o" -> [has_arg |-> TRUE, val |-> "o", flag |-> -1]
        [] n = "-r" -> [has_arg |-> TRUE, val |-> "r", flag |-> -1]]

\* The token a required argument is delivered as: the attached text of
\* "--name=w", or the next element of argv whatever it looks like.
NoArg == Word(<<>>)

\* First index >= i of argv holding an option token; Len(argv)+1 if none.
\* getopt_long in its default (permuting) mode skips the plain words; the
\* words it skips are moved behind the options only at its next call and
\* never past optind, so main never reads a moved element.
RECURSIVE NextOption(_, _)
NextOption(av, i) ==
    IF i > Len(av) THEN Len(av) + 1
    ELSE IF av[i].name # "" THEN i
    ELSE NextOption(av, i + 1)

\* One call getopt_long(argc, argv, "hio:r:", long_options, &option_index)
\* with the cursor at oi: the value returned (c), the new cursor, optarg,
\* the index of the option token (at) and the value stored through the
\* entry's flag pointer (-1: none).
getopt_long(av, oi) ==
    LET j == NextOption(av, oi) IN
    IF j > Len(av)
    THEN [c |-> "-1", optind |-> j, optarg |-> NoArg, at |-> j, flag |-> -1]
    ELSE LET t == av[j] IN
         IF t.name \notin DOMAIN long_options
         THEN [c |-> "?", optind |-> j + 1, optarg |-> NoArg, at |-> j, flag |-> -1]
         ELSE LET o == long_options[t.name] IN
              IF ~o.has_arg
              THEN IF t.att
                   THEN [c |-> "?", optind |-> j + 1, optarg |-> NoArg, at |-> j,
                         flag |-> -1]
                   ELSE [c |-> o.val, optind |-> j + 1, optarg |-> NoArg, at |-> j,
                         flag |-> o.flag]
              ELSE IF t.att
                   THEN [c |-> o.val, optind |-> j + 1, optarg |-> Word(t.w),
                         at |-> j, flag |-> -1]
                   ELSE IF j + 1 <= Len(av)
                        THEN [c |-> o.val, optind |-> j + 2, optarg |-> av[j + 1],
                              at |-> j, flag |-> -1]
                        ELSE [c |-> "?", optind |-> j + 1, optarg |-> NoArg,
                              at |-> j, flag |-> -1]

\* ----------------------------------------------------------------- atoi
Digits == {"0", "1", "2", "3", "4", "5", "6", "7", "8", "9"}

DigitVal(ch) ==
    CASE ch = "0" -> 0 [] ch = "1" -> 1 [] ch = "2" -> 2 [] ch = "3" -> 3
      [] ch = "4" -> 4 [] ch = "5" -> 5 [] ch = "6" -> 6 [] ch = "7" -> 7
      [] ch = "8" -> 8 [] ch = "9" -> 9

\* The leading decimal digits of cs, accumulated onto acc.
RECURSIVE AtoiDigits(_, _)
AtoiDigits(cs, acc) ==
    IF cs = <<>> \/ Head(cs) \notin Digits THEN acc
    ELSE AtoiDigits(Tail(cs), 10 * acc + DigitVal(Head(cs)))

\* atoi on a character sequence: optional sign, then the leading digits;
\* 0 when there are none.
AtoiChars(cs) ==
    IF cs = <<>> THEN 0
    ELSE IF Head(cs) = "-" THEN 0 - AtoiDigits(Tail(cs), 0)
    ELSE IF Head(cs) = "+" THEN AtoiDigits(Tail(cs), 0)
    ELSE AtoiDigits(cs, 0)

\* atoi(optarg).  An option token used as the argument reads "--..." or
\* "-x": a sign followed by no digit, which is 0.
atoi(tok) == IF tok.name # "" THEN 0 ELSE AtoiChars(tok.w)


\* ----------------------------------------------------------- statistics
\* std::sort(measurements.begin(), measurements.end()): ascending order.
RECURSIVE Insert(_, _)
Insert(s, v) ==
    IF s = <<>> THEN <<v>>
    ELSE IF v <= Head(s) THEN <<v>> \o s
    ELSE <<Head(s)>> \o Insert(Tail(s), v)

RECURSIVE Sort(_)
Sort(s) == IF s = <<>> THEN <<>> ELSE Insert(Sort(Tail(s)), Head(s))

\* std::accumulate(measurements.begin(), measurements.end(), 0.0)
RECURSIVE Sum(_)
Sum(s) == IF s = <<>> THEN 0 ELSE Head(s) + Sum(Tail(s))

\* The variance loop, times n^3: val - mean = (n*val - sum) / n.
RECURSIVE SumSqDev(_, _, _)
SumSqDev(s, n, sum) ==
    IF s = <<>> THEN 0
    ELSE (n * Head(s) - sum) * (n * Head(s) - sum) + SumSqDev(Tail(s), n, sum)

\* The 0-based indices the code reads for Q1, Q3 and the median.  The
\* median's index is size_t arithmetic: for size() = 0 it is SIZE_MAX,
\* which addresses the element before the buffer exactly as -1 does.
Q1Idx(n) == IF n % 2 = 0 THEN <<(n \div 4) - 1, n \div 4>> ELSE <<n \div 4>>
Q3Idx(n) ==
    IF n % 2 = 0 THEN <<((3 * n) \div 4) - 1, (3 * n) \div 4>>
    ELSE <<(3 * n) \div 4>>
MedianIdx(n) == IF n % 2 = 0 THEN <<(n \div 2) - 1, n \div 2>> ELSE <<n \div 2>>

\* The indices dereferenced through minmax_element's iterators: the first
\* and last element of the sorted sample, and end() (index 0 of an empty
\* vector) when the sample is empty.
MinMaxIdx(n) == IF n = 0 THEN <<0, 0>> ELSE <<0, n - 1>>

\* Every index the statistics code reads from a sample of size n.
IndicesRead(n) ==
    LET R(q) == {q[k] : k \in DOMAIN q}
    IN R(Q1Idx(n)) \cup R(Q3Idx(n)) \cup R(MedianIdx(n)) \cup R(MinMaxIdx(n))

InBounds(n) == IndicesRead(n) \subseteq 0 .. (n - 1)

\* What a read outside the sample can yield: any double, here one below
\* and one above every measurement.
Garbage == {0, MaxVal + 1}

\* measurements[idx] on the sorted sample; g gives the content of the two
\* locations outside it that the code can address (index -1 and index 0
\* of an empty vector's reserved storage).
ReadAt(sorted, idx, g) ==
    IF idx >= 0 /\ idx < Len(sorted) THEN sorted[idx + 1]
    ELSE IF idx < 0 THEN g[1] ELSE g[2]

\* Twice the value of a quartile or of the median: the element itself for
\* one index, (a + b) / 2 for two.
Twice(sorted, q, g) ==
    IF Len(q) = 1 THEN 2 * ReadAt(sorted, q[1], g)
    ELSE ReadAt(sorted, q[1], g) + ReadAt(sorted, q[2], g)

\* The block of statistics printed after the run loop.
Statistics(m, g) ==
    LET n == Len(m)
        sorted == Sort(m)
    IN [n |-> n,
        sum |-> Sum(m),
        varn3 |-> SumSqDev(m, n, Sum(m)),
        min |-> ReadAt(sorted, MinMaxIdx(n)[1], g),
        q1x2 |-> Twice(sorted, Q1Idx(n), g),
        medx2 |-> Twice(sorted, MedianIdx(n), g),
        q3x2 |-> Twice(sorted, Q3Idx(n), g),
        max |-> ReadAt(sorted, MinMaxIdx(n)[2], g)]

NoStatistics ==
    [n |-> -1, sum |-> 0, varn3 |-> 0, min |-> 0, q1x2 |-> 0, medx2 |-> 0,
     q3x2 |-> 0, max |-> 0]


\* ---------------------------------------------------------------- state
VARIABLES
    argv,           \* the command line, argv[1] .. argv[argc-1]
    reports_on_failure, \* whether this build's Command methods also append
                    \* a measurement when they fail
    optind,         \* getopt's cursor, which main moves for positional args
    opt,            \* the last result of getopt_long: main's c, optarg and
                    \* the index of the option token they came from
    pc,             \* "getopt" | "run" | "stats" | "done" | "abort_arity" |
                    \* "abort_unknown" | "abort_folder" | "crashed"
    verbose_flag,   \* static int verbose_flag
    output_folder,  \* main's output_folder: the directory token, "/" appended
    repetitions,    \* static int repetitions
    cmd_ret,        \* main's cmd_ret
    func,           \* the operation the runner was handed: [op, at, nargs]
    reps,           \* the runner's parameter repetitions
    i,              \* the runner's loop counter
    measurements,   \* the runner's sample
    r_cmd_ret,      \* the runner's local cmd_ret
    stats,          \* the last block of statistics printed
    out,            \* the lines printed, by kind
    calls           \* every call made into Command / Tests, in order

vars ==
    <<argv, reports_on_failure, optind, opt, pc, verbose_flag, output_folder, repetitions, cmd_ret, func,
      reps, i, measurements, r_cmd_ret, stats, out, calls>>

runner == <<func, reps, i, measurements, r_cmd_ret>>

\* What no step changes.
fixed == <<argv, reports_on_failure>>

argc == Len(argv) + 1

\* The status a Command method can return: success, one specific failure
\* code, and the "not supported" value.
Statuses == {0, 1, NotSupported}

Values == 1 .. MaxVal

\* What a repeatable Command method appends to the vector it is handed:
\* one value when it succeeds, and when it fails one or none, the same way
\* in every call.
CommandAppends(status) ==
    IF status = 0 \/ reports_on_failure THEN {<<v>> : v \in Values}
    ELSE {<<>>}

\* The values one call func(measurements) appends to the sample.  The
\* lambda of case 'g' never hands measurements to pek_cert_import; the
\* other lambdas pass it on to their Command method.
Appended(op, status) ==
    IF op = "g" THEN {<<>>} ELSE CommandAppends(status)

\* The line printed for a status that is not success (runner lines 137-144,
\* main lines 481-488).
FailureLine(status) ==
    IF status = NotSupported THEN "NotSupported" ELSE "Unsuccessful"

\* A faulty variant of OutcomeLine: the 0xFFFF branch of the final mapping left out.
OutcomeLineNoSentinel(status) ==
    IF status = 0 THEN "Successful" ELSE "Unsuccessful"

\* The final mapping of main (lines 477-488).
OutcomeLine(status) == IF status = 0 THEN "Successful" ELSE FailureLine(status)

OutcomeLines == {"Successful", "NotSupported", "Unsuccessful"}

\* Positional arguments each operation takes after its flag.
Arity(c) ==
    CASE c = "g" -> 2 [] c = "s" -> 2 [] c = "l" -> 1 [] c = "v" -> 1
      [] c = "t" -> 8

\* A faulty variant of ArityOk: the check written as "fewer than K" instead of
\* "not exactly K".
ArityAtLeast(c, oi) == argc - oi >= Arity(c)

\* if (argc - optind != K) after optind--.
ArityOk(c, oi) == argc - oi = Arity(c)

\* A faulty variant of LoopContinues: the break on a failed run left out.
LoopIgnoresStatus(status, next, n) == next < n

\* for (int i = 0; i < repetitions; i++) ... if (cmd_ret != 0) break;
LoopContinues(status, next, n) == status = 0 /\ next < n

\* A faulty variant of EffectiveRepetitions: the test written as < 0.
EffectiveRepetitionsZeroKept(v) == IF v < 0 THEN DefaultRepetitions ELSE v

\* case 'r': a value atoi reads as <= 0 is replaced by the default.
EffectiveRepetitions(v) == IF v <= 0 THEN DefaultRepetitions ELSE v

Call(op, at, status, nargs) ==
    [op |-> op, at |-> at, status |-> status, nargs |-> nargs,
     verbose |-> verbose_flag, folder |-> output_folder, reps |-> repetitions]

G == getopt_long(argv, optind)

\* What main keeps of one getopt_long result.
Returned(g) == [c |-> g.c, at |-> g.at, optarg |-> g.optarg]

\* -------------------------------------------------------- command lines
DotDir == Word(<<".">>)

Words == {Word(<<"2">>), Word(<<"x">>), Word(<<"2", "x">>), Word(<<"-", "1">>)}

Alphabet ==
    {Opt("verbose"), Opt("brief"), Opt("repetitions"),
     OptEq("repetitions", <<"2">>), Opt("ofolder"), Opt("factory_reset"),
     Opt("pek_cert_import"), Opt("set_self_owned"), Opt("help"),
     Opt("test_all"), Opt("bogus")} \cup Words

RECURSIVE SeqsUpTo(_, _)
SeqsUpTo(S, n) ==
    IF n = 0 THEN {<<>>}
    ELSE LET shorter == SeqsUpTo(S, n - 1)
         IN shorter \cup {Append(s, x) : s \in {t \in shorter : Len(t) = n - 1}, x \in S}

\* Every command line of at most MaxArgs tokens.
AnyOrder == SeqsUpTo(Alphabet, MaxArgs)

DigitChars == <<"1", "2", "3", "4", "5", "6", "7", "8", "9">>

\* --repetitions <n> followed by a repeatable operation, n in 1..MaxReps.
RunnerLines ==
    {<<Opt("repetitions"), Word(<<DigitChars[n]>>), Opt(o)>> :
        n \in 1 .. MaxReps, o \in {"factory_reset", "get_id", "pek_gen"}}
    \cup {<<Opt("repetitions"), Word(<<DigitChars[n]>>), Opt("pek_cert_import"),
            Word(<<"x">>), Word(<<"x">>)>> : n \in 1 .. MaxReps}

PositionalOps ==
    {"pek_cert_import", "sign_pek_csr", "set_externally_owned",
     "generate_launch_blob", "calc_measurement"}

\* A positional operation followed by 0 .. K+1 tokens, in both spellings
\* of the flag, alone or behind a plain word or a modifier.
PositionalLines ==
    LET tail(k) == [j \in 1 .. k |-> Word(<<"x">>)]
        K(o) == Arity(long_options[o].val)
        last(k) == {tail(k)} \cup
                   (IF k > 0 THEN {Append(tail(k - 1), Opt("verbose"))} ELSE {})
    IN UNION {{pre \o <<f>> \o t :
                 pre \in {<<>>, <<Word(<<"x">>)>>, <<Opt("verbose")>>,
                          <<Opt("factory_reset")>>},
                 f \in {Opt(o), OptEq(o, <<"x">>)},
                 t \in UNION {last(k) : k \in 0 .. K(o) + 1}} :
              o \in PositionalOps}

Init ==
    /\ argv \in AnyOrder \cup RunnerLines \cup PositionalLines
    /\ reports_on_failure \in BOOLEAN
    /\ optind = 1
    /\ opt = [c |-> "", at |-> 0, optarg |-> NoArg]
    /\ pc = "getopt"
    /\ verbose_flag = 0
    /\ output_folder = DotDir
    /\ repetitions = DefaultRepetitions
    /\ cmd_ret = NotSupported
    /\ func = [op |-> "", at |-> 0, nargs |-> 0]
    /\ reps = 0
    /\ i = 0
    /\ measurements = <<>>
    /\ r_cmd_ret = 0
    /\ stats = NoStatistics
    /\ out = <<>>
    /\ calls = <<>>


\* -------------------------------------------------------------- actions
\* Each Case action is one iteration of the while loop of main: the call
\* of getopt_long and the body of the case it selects.

\* case 'h' / 'H'
CaseHelp ==
    /\ pc = "getopt"
    /\ opt' = Returned(G)
    /\ G.c \in {"h", "H"}
    /\ optind' = G.optind
    /\ out' = Append(out, "Help")
    /\ cmd_ret' = 0
    /\ UNCHANGED <<fixed, pc, verbose_flag, output_folder, repetitions, runner,
                   stats, calls>>

\* case 'i' / 'I' and the single-shot cases 'k' 'm' 'n' 'p' 'q' 'u' 'w' 'x'
\* 'y' 'z': construct a Command, call one method, keep its status.
CaseSingleShot ==
    /\ pc = "getopt"
    /\ opt' = Returned(G)
    /\ G.c \in {"i", "I", "k", "m", "n", "p", "q", "u", "w", "x", "y", "z"}
    /\ optind' = G.optind
    /\ \E status \in Statuses :
         /\ cmd_ret' = status
         /\ calls' = Append(calls, Call(G.c, G.at, status, 0))
    /\ UNCHANGED <<fixed, pc, verbose_flag, output_folder, repetitions, runner,
                   stats, out>>

\* case 'T': cmd_ret = (test.test_all() == 0)
CaseTestAll ==
    /\ pc = "getopt"
    /\ opt' = Returned(G)
    /\ G.c = "T"
    /\ optind' = G.optind
    /\ \E passed \in {0, 1} :
         /\ cmd_ret' = (IF passed = 0 THEN 1 ELSE 0)
         /\ calls' = Append(calls, Call("T", G.at, passed, 0))
    /\ UNCHANGED <<fixed, pc, verbose_flag, output_folder, repetitions, runner,
                   stats, out>>

\* case 'o' / 'O': the folder is stored, then checked through the shell;
\* a failed command or a missing directory ends the process.
CaseOFolder ==
    /\ pc = "getopt"
    /\ opt' = Returned(G)
    /\ G.c \in {"o", "O"}
    /\ optind' = G.optind
    /\ output_folder' = G.optarg
    /\ \E check \in {"failed", "no", "exist"} :
         IF check = "exist"
         THEN UNCHANGED <<pc, out>>
         ELSE /\ pc' = "abort_folder"
              /\ out' = Append(out, "FolderError")
    /\ UNCHANGED <<fixed, verbose_flag, repetitions, cmd_ret, runner, stats, calls>>

\* case 'r'
CaseRepetitions ==
    /\ pc = "getopt"
    /\ opt' = Returned(G)
    /\ G.c = "r"
    /\ optind' = G.optind
    /\ repetitions' = EffectiveRepetitions(atoi(G.optarg))
    /\ out' = IF atoi(G.optarg) <= 0 THEN Append(out, "InvalidRepetitions") ELSE out
    /\ UNCHANGED <<fixed, pc, verbose_flag, output_folder, cmd_ret, runner, stats,
                   calls>>

\* case 0 / 1: getopt_long itself stored the entry's value in verbose_flag.
CaseFlag ==
    /\ pc = "getopt"
    /\ opt' = Returned(G)
    /\ G.c = "0"
    /\ optind' = G.optind
    /\ verbose_flag' = G.flag
    /\ UNCHANGED <<fixed, pc, output_folder, repetitions, cmd_ret, runner, stats,
                   out, calls>>

\* A faulty variant of CaseDefault: the diagnostic printed but the return left out,
\* so the loop goes on.
CaseDefaultNoReturn ==
    /\ pc = "getopt"
    /\ opt' = Returned(G)
    /\ G.c = "?"
    /\ optind' = G.optind
    /\ out' = Append(out, "Unrecognised")
    /\ UNCHANGED <<fixed, pc, verbose_flag, output_folder, repetitions, cmd_ret,
                   runner, stats, calls>>

\* default: an unknown option, an option missing its argument, or a flag
\* option given one.
CaseDefault ==
    /\ pc = "getopt"
    /\ opt' = Returned(G)
    /\ G.c = "?"
    /\ optind' = G.optind
    /\ out' = Append(out, "Unrecognised")
    /\ pc' = "abort_unknown"
    /\ UNCHANGED <<fixed, verbose_flag, output_folder, repetitions, cmd_ret,
                   runner, stats, calls>>

\* A faulty variant of EnterRunner: the count not passed, so the parameter takes its
\* default of 10.
EnterRunnerDefaultCount(op, at, nargs) ==
    /\ func' = [op |-> op, at |-> at, nargs |-> nargs]
    /\ reps' = 10
    /\ i' = 0
    /\ measurements' = <<>>
    /\ r_cmd_ret' = 0
    /\ pc' = "run"

\* The call perform_repetitions_and_analysis(lambda, repetitions): the
\* frame of the runner before its first loop test.
EnterRunner(op, at, nargs) ==
    /\ func' = [op |-> op, at |-> at, nargs |-> nargs]
    /\ reps' = repetitions
    /\ i' = 0
    /\ measurements' = <<>>
    /\ r_cmd_ret' = 0
    /\ pc' = IF 0 < repetitions THEN "run" ELSE "stats"

\* cases 'a' 'b' 'c' 'd' 'e' 'f' 'j'
CaseRepeatable ==
    /\ pc = "getopt"
    /\ opt' = Returned(G)
    /\ G.c \in {"a", "b", "c", "d", "e", "f", "j"}
    /\ optind' = G.optind
    /\ EnterRunner(G.c, G.at, 0)
    /\ UNCHANGED <<fixed, verbose_flag, output_folder, repetitions, cmd_ret, stats,
                   out, calls>>

\* case 'g': optind--, the arity check, two arguments read, then the runner.
CaseCertImport ==
    /\ pc = "getopt"
    /\ opt' = Returned(G)
    /\ G.c = "g"
    /\ IF ArityOk("g", G.optind - 1)
       THEN /\ optind' = G.optind - 1 + Arity("g")
            /\ EnterRunner("g", G.at, Arity("g"))
            /\ UNCHANGED out
       ELSE /\ optind' = G.optind - 1
            /\ out' = Append(out, "ArityError")
            /\ pc' = "abort_arity"
            /\ UNCHANGED runner
    /\ UNCHANGED <<fixed, verbose_flag, output_folder, repetitions, cmd_ret, stats,
                   calls>>

\* cases 'l' 's' 't' 'v': optind--, the arity check, the arguments read
\* and decoded, one call.
CasePositional ==
    /\ pc = "getopt"
    /\ opt' = Returned(G)
    /\ G.c \in {"l", "s", "t", "v"}
    /\ IF ArityOk(G.c, G.optind - 1)
       THEN /\ optind' = G.optind - 1 + Arity(G.c)
            /\ \E status \in Statuses :
                 /\ cmd_ret' = status
                 /\ calls' = Append(calls, Call(G.c, G.at, status, Arity(G.c)))
            /\ UNCHANGED <<pc, out>>
       ELSE /\ optind' = G.optind - 1
            /\ out' = Append(out, "ArityError")
            /\ pc' = "abort_arity"
            /\ UNCHANGED <<cmd_ret, calls>>
    /\ UNCHANGED <<fixed, verbose_flag, output_folder, repetitions, runner, stats>>

\* One iteration of the runner's loop: the call, the failure line and the
\* break, the increment and the loop test.
RunOnce ==
    /\ pc = "run"
    /\ \E status \in Statuses :
         /\ \E a \in Appended(func.op, status) : measurements' = measurements \o a
         /\ r_cmd_ret' = status
         /\ calls' = Append(calls, Call(func.op, func.at, status, func.nargs))
         /\ out' = IF status # 0 THEN Append(out, FailureLine(status)) ELSE out
         /\ i' = IF status # 0 THEN i ELSE i + 1
         /\ pc' = IF LoopContinues(status, i + 1, reps) THEN "run" ELSE "stats"
    /\ UNCHANGED <<fixed, optind, opt, verbose_flag, output_folder, repetitions, cmd_ret,
                   func, reps, stats>>

\* The statistics after the loop and the return into main's cmd_ret.  A
\* read outside the sample yields whatever the two locations hold.
Analyse ==
    /\ pc = "stats"
    /\ \E g \in Garbage \X Garbage :
         stats' = Statistics(measurements, IF InBounds(Len(measurements))
                                            THEN <<0, 0>> ELSE g)
    /\ out' = Append(out, "Statistics")
    /\ cmd_ret' = r_cmd_ret
    /\ pc' = "getopt"
    /\ UNCHANGED <<fixed, optind, opt, verbose_flag, output_folder, repetitions, runner,
                   calls>>

\* The other outcome of a read outside the sample: the process dies.
AnalyseCrash ==
    /\ pc = "stats"
    /\ ~InBounds(Len(measurements))
    /\ pc' = "crashed"
    /\ UNCHANGED <<fixed, optind, opt, verbose_flag, output_folder, repetitions, cmd_ret,
                   runner, stats, out, calls>>

\* getopt_long returned -1: the final mapping and return 0.
ParseEnd ==
    /\ pc = "getopt"
    /\ opt' = Returned(G)
    /\ G.c = "-1"
    /\ out' = Append(out, OutcomeLine(cmd_ret))
    /\ pc' = "done"
    /\ UNCHANGED <<fixed, optind, verbose_flag, output_folder, repetitions, cmd_ret,
                   runner, stats, calls>>

Next ==
    \/ CaseHelp
    \/ CaseSingleShot
    \/ CaseTestAll
    \/ CaseOFolder
    \/ CaseRepetitions
    \/ CaseFlag
    \/ CaseDefault
    \/ CaseRepeatable
    \/ CaseCertImport
    \/ CasePositional
    \/ RunOnce
    \/ Analyse
    \/ AnalyseCrash
    \/ ParseEnd

Spec == Init /\ [][Next]_vars

\* The builds whose Command methods append a measurement only when they
\* succeed.
InitSuccessOnly == Init /\ ~reports_on_failure

SpecSuccessOnly == InitSuccessOnly /\ [][Next]_vars


\* --------------------------------------------------------------- claims
Last(s) == s[Len(s)]

Aborted == pc \in {"abort_arity", "abort_unknown", "abort_folder"}

\* The calls of the repetition cycle the runner's frame belongs to, and
\* their statuses, in order.
CycleCalls == SelectSeq(calls, LAMBDA k : k.at = func.at)
CycleStatuses == [k \in DOMAIN CycleCalls |-> CycleCalls[k].status]
Successes(st) == Cardinality({k \in DOMAIN st : st[k] = 0})

\* The runner has returned into main and nothing has happened since.
JustReturned ==
    /\ pc = "getopt"
    /\ out # <<>> /\ Last(out) = "Statistics"
    /\ calls # <<>> /\ Last(calls).at = func.at

\* C1: the runner executes its runs one after another, stops at the first
\* run whose status is not 0 and returns that status; with no such run it
\* executes exactly the requested number of runs and returns 0.  While the
\* loop is running, i runs have been made and all succeeded; when it has
\* ended, k <= N runs were made, only the last may have failed, the local
\* cmd_ret is the last status, and a successful last run is run N; what
\* main receives is that status.
C1_EarlyStop ==
    LET st == CycleStatuses
        k == Len(st)
    IN /\ pc = "run" =>
            /\ k = i /\ i < reps
            /\ \A j \in 1 .. k : st[j] = 0
       /\ pc = "stats" =>
            /\ k >= 1 /\ k <= reps
            /\ \A j \in 1 .. k - 1 : st[j] = 0
            /\ r_cmd_ret = st[k]
            /\ st[k] = 0 => k = reps
       /\ JustReturned => cmd_ret = Last(calls).status

\* C1 witness: a cycle of at least three requested runs stopped by the
\* failure of its second run.
C1_Witness ==
    /\ pc = "stats" /\ reps >= 3
    /\ Len(CycleStatuses) = 2 /\ r_cmd_ret # 0

\* C2: for every operation dispatched through the runner the sample never
\* holds more or fewer values than runs that returned 0, during the cycle
\* and when the run loop has ended.
C2_SampleSize ==
    pc \in {"run", "stats"} => Len(measurements) = Successes(CycleStatuses)

\* C3: the statistics printed for a sample of n >= 1 values satisfy
\* min <= Q1 <= median <= Q3 <= max and variance >= 0.
C3_Ordering ==
    stats.n >= 1 =>
        /\ 2 * stats.min <= stats.q1x2
        /\ stats.q1x2 <= stats.medx2
        /\ stats.medx2 <= stats.q3x2
        /\ stats.q3x2 <= 2 * stats.max
        /\ stats.varn3 >= 0

\* C10: when the run loop has ended, every index read from the sorted
\* sample lies in 0 .. n-1 and the divisor n is not zero.
C10_InBounds ==
    pc = "stats" =>
        /\ InBounds(Len(measurements))
        /\ Len(measurements) # 0

OutcomeCount == Cardinality({k \in DOMAIN out : out[k] \in OutcomeLines})

\* C4: no outcome line is printed before the end of option parsing, and a
\* run that reaches it prints exactly one, the mapping of the surviving
\* status, as its last line.
C4_OutcomeOnce ==
    /\ pc # "done" => OutcomeCount = 0
    /\ pc = "done" => OutcomeCount = 1 /\ Last(out) = OutcomeLine(cmd_ret)

\* C5 as stated: a run ended by an unknown flag or a wrong argument count
\* has executed no operation.
C5_NothingExecuted ==
    pc \in {"abort_arity", "abort_unknown"} => calls = <<>>

\* C5 amended: once an unknown flag or a wrong argument count is reported
\* the run has ended, and every operation that executed was selected by a
\* flag in front of the offending one.
C5_OnlyEarlierExecuted ==
    (\E k \in DOMAIN out : out[k] \in {"ArityError", "Unrecognised"}) =>
        /\ pc \in {"abort_arity", "abort_unknown"}
        /\ \A k \in DOMAIN calls : calls[k].at < opt.at

\* C5 witness: an unknown flag stops a run that has executed an operation.
C5_Witness == pc = "abort_unknown" /\ calls # <<>>

\* C6 as stated: once an operation has executed, no modifier changes.
C6_ReadOnly ==
    [][calls # <<>> => UNCHANGED <<verbose_flag, output_folder, repetitions>>]_vars

\* C6 amended: the modifiers are fixed for the duration of one operation:
\* the runner's count is the repetition count throughout its cycle, and
\* all calls of one operation see the same verbose flag, output folder
\* and repetition count.
C6_FixedPerOperation ==
    /\ pc \in {"run", "stats"} => reps = repetitions
    /\ \A j, k \in DOMAIN calls :
          calls[j].at = calls[k].at =>
              /\ calls[j].verbose = calls[k].verbose
              /\ calls[j].folder = calls[k].folder
              /\ calls[j].reps = calls[k].reps

\* C6 witness: two operations of one run executed under different
\* modifier values.
C6_Witness ==
    \E j, k \in DOMAIN calls :
        /\ calls[j].at # calls[k].at
        /\ \/ calls[j].verbose # calls[k].verbose
           \/ calls[j].reps # calls[k].reps

\* A --repetitions value that is a positive integer: digits only, not all
\* zero.
IsPositiveInteger(tok) ==
    /\ tok.name = "" /\ tok.w # <<>>
    /\ \A k \in DOMAIN tok.w : tok.w[k] \in Digits
    /\ AtoiDigits(tok.w, 0) > 0

\* C7 as stated: after a --repetitions value the count is that value if it
\* is a positive integer and 1 otherwise, and the count is always >= 1.
C7_PositiveOrDefault ==
    /\ repetitions >= 1
    /\ (opt.c = "r" /\ pc = "getopt") =>
          repetitions = (IF IsPositiveInteger(opt.optarg)
                         THEN AtoiDigits(opt.optarg.w, 0) ELSE 1)

\* C7 amended: the count is 1 initially and always >= 1, also as handed to
\* the runner; after a --repetitions value it is the number that value
\* starts with when that number is positive ("2x" counts as 2) and 1
\* otherwise; the process is not ended by the value.
C7_AlwaysPositive ==
    /\ repetitions >= 1
    /\ opt.c = "" => repetitions = 1
    /\ pc \in {"run", "stats"} => reps >= 1
    /\ opt.c = "r" =>
          /\ pc = "getopt"
          /\ repetitions = (IF atoi(opt.optarg) >= 1 THEN atoi(opt.optarg) ELSE 1)
          /\ opt.optarg = Word(<<"2", "x">>) => repetitions = 2
          /\ opt.optarg \in {Word(<<"x">>), Word(<<"-", "1">>)} => repetitions = 1

\* C7 witness: a value that is not a positive integer has been replaced by
\* 1 and a run of the runner was made with it.
C7_Witness ==
    /\ "InvalidRepetitions" \in {out[k] : k \in DOMAIN out}
    /\ pc = "stats" /\ reps = 1


\* The option getopt_long returned last is the flag of an operation that
\* takes positional arguments.
AtPositional ==
    /\ opt.at \in DOMAIN argv
    /\ argv[opt.at].name \in PositionalOps

PositionalArity == Arity(long_options[argv[opt.at].name].val)

\* The operation selected by the last option has executed or is executing.
Dispatched ==
    \/ \E k \in DOMAIN calls : calls[k].at = opt.at
    \/ func.at = opt.at

\* C8 as stated: when the tokens after the flag of a K-argument operation
\* are not exactly K, the process aborts with the arity error, the
\* operation has not executed and the cursor has not passed the first
\* token after the flag.
C8_ExactArity ==
    (AtPositional /\ Len(argv) - opt.at # PositionalArity) =>
        /\ pc = "abort_arity"
        /\ ~Dispatched
        /\ optind <= opt.at + 1

\* C8 amended: the count that is compared with K is the number of tokens
\* after the flag, plus one for a flag written --flag=value (the flag token
\* itself is then read as the first argument).  When it is K the
\* operation is handed exactly K tokens, the last K of the command line.
\* Otherwise the process aborts before the operation executes and before
\* the cursor passes the first token after the flag: with the arity error,
\* or, when nothing follows a flag written alone, with getopt_long's
\* missing-argument error reported as an unrecognised option.
C8_ArityChecked ==
    AtPositional =>
        LET counted == Len(argv) - opt.at + (IF argv[opt.at].att THEN 1 ELSE 0)
        IN IF counted = PositionalArity
           THEN /\ ~Aborted
                /\ Dispatched
                /\ optind = argc
                /\ \A k \in DOMAIN calls :
                      calls[k].at = opt.at => calls[k].nargs = PositionalArity
           ELSE /\ pc = (IF counted = 0 THEN "abort_unknown" ELSE "abort_arity")
                /\ ~Dispatched
                /\ optind <= opt.at + 1

\* C8 witness: a two-argument operation followed by three tokens has been
\* refused with the arity error.
C8_Witness ==
    /\ AtPositional /\ PositionalArity = 2
    /\ Len(argv) - opt.at = 3
    /\ pc = "abort_arity" /\ Last(out) = "ArityError"

\* The command line holds nothing but modifier flags and plain words.
OnlyModifiers ==
    \A j \in DOMAIN argv :
        argv[j].name \in {"", "verbose", "brief", "repetitions", "ofolder"}

\* C9 as stated: with no operation flag on the command line, no command
\* executes and the process ends with the not-supported line, the status
\* still 0xFFFF.
C9_NotSupportedAtExit ==
    OnlyModifiers =>
        /\ calls = <<>>
        /\ cmd_ret = NotSupported
        /\ (pc = "done" \/ Aborted) => Last(out) = "NotSupported"

\* C9 amended: with no operation flag on the command line no command
\* executes and the status stays 0xFFFF; a run that reaches the end of
\* option parsing prints the not-supported line as its only outcome line,
\* and a run ended earlier (the output folder check failed, a modifier's
\* argument is missing) prints no outcome line.
C9_NotSupportedAtEnd ==
    OnlyModifiers =>
        /\ calls = <<>>
        /\ cmd_ret = NotSupported
        /\ pc = "done" => Last(out) = "NotSupported" /\ OutcomeCount = 1
        /\ pc # "done" => OutcomeCount = 0

\* C9 witness: a command line of modifiers only, all of them processed,
\* has reached the final mapping.
C9_Witness ==
    /\ OnlyModifiers /\ pc = "done"
    /\ verbose_flag = 1 /\ repetitions = 2
    /\ Last(out) = "NotSupported"

=============================================================================
